---- MODULE Spec2Model ----
(***************************************************************************)
(* glazed: a GraphQL front for a Tiled server.                             *)
(*                                                                         *)
(* The model covers the remote access client (src/clients.rs), the node    *)
(* schema (src/model/node.rs) and the resolvers of src/model.rs.  One      *)
(* behaviour is the resolution of one client request: Init picks the       *)
(* resolver, its receiver and the forwarded credential; every remote call  *)
(* is one step, and the remote service answers it with any response of the *)
(* bounded sets below.                                                     *)
(*                                                                         *)
(* Text is a sequence of fragments.  A string literal of the source is one *)
(* fragment, an id is a sequence of one-character fragments, and a         *)
(* response body is a sequence of chunks, each standing for a run of bytes *)
(* on the wire.                                                            *)
(***************************************************************************)
EXTENDS Integers, Sequences, FiniteSets, TLC

\* ------------------------------------------------------------------ bounds

\* Entries that the remote service returns, in total, over the collection
\* responses of one operation.
MaxEntries == 4

\* Ancestors of a table node.
MaxAncestors == 2

\* The most data sources of one dataset, and the most assets of one data
\* source.
MaxSources == 2

MaxAssets == 2

\* ------------------------------------------------------------ option/result

None == [tag |-> "None"]

Some(x) == [tag |-> "Some", v |-> x]

Ok(x) == [tag |-> "Ok", v |-> x]

\* ClientError, one constructor per variant.
InvalidPath(cause) == [tag |-> "Err", kind |-> "InvalidPath", cause |-> cause]

ServerError(cause) == [tag |-> "Err", kind |-> "ServerError", cause |-> cause]

InvalidResponse(e, body) ==
    [tag |-> "Err", kind |-> "InvalidResponse", err |-> e, body |-> body]

TiledInternal(status, body) ==
    [tag |-> "Err", kind |-> "TiledInternal", status |-> status, body |-> body]

TiledRequest(status, body) ==
    [tag |-> "Err", kind |-> "TiledRequest", status |-> status, body |-> body]

\* ------------------------------------------------------------- node schema

\* The variants of NodeAttributes: the tag is the lower-cased variant name.
StructureFamilies == {"container", "array", "table"}

\* A node as the remote service writes it: one chunk of a body.
NodeChunk(id, family, ancestors, sources) ==
    [t |-> "node", id |-> id, family |-> family,
     ancestors |-> ancestors, data_sources |-> sources]

\* node::Asset, with the fields the resolvers read.
NodeAsset(uri, id) == [data_uri |-> uri, id |-> id]

\* Any other JSON value (an object that lacks a field of Data, a number...).
JsonChunk(v) == [t |-> "json", v |-> v]

\* The envelope around a collection: {"data": [ ... ], "error": .., "meta": ..}
OpenData == [t |-> "punct", c |-> "{data:["]

CloseData == [t |-> "punct", c |-> "],error,links,meta}"]

\* A byte sequence that is not valid in the response's charset.
InvalidBytes == [t |-> "bytes", c |-> "xFF"]

\* U+FFFD REPLACEMENT CHARACTER.
Replacement == [t |-> "char", c |-> "uFFFD"]

\* Text that is not JSON.
PlainText(s) == [t |-> "plain", c |-> s]

\* A whole table payload / application metadata payload.
TableChunk(cols) == [t |-> "table", columns |-> cols]

AppChunk == [t |-> "app", api_version |-> 0]

\* Whether a chunk is a JSON value at all.
IsJsonValue(c) == c.t \in {"node", "json", "table", "app"}

\* Deserialize for Data: an object with id, attributes, links and meta whose
\* attributes carry a structure_family naming a variant of NodeAttributes.
IsData(c) == c.t = "node" /\ c.family \in StructureFamilies

\* DataOption is untagged: Data is tried first, and any value is an Error.
DataOption(c) ==
    IF IsData(c) THEN [variant |-> "Data", data |-> c]
                 ELSE [variant |-> "Error", value |-> c]

\* DataOption::into_data / as_data.
into_data_opt(d) == IF d.variant = "Data" THEN <<d.data>> ELSE <<>>

RECURSIVE FlatMapDataReversed(_)
\* A flat_map that yields the entries last to first.
FlatMapDataReversed(ds) ==
    IF ds = <<>> THEN <<>>
    ELSE FlatMapDataReversed(Tail(ds)) \o into_data_opt(Head(ds))

RECURSIVE FlatMapData(_)
\* Root::data / Root::into_data: flat_map over the entries.
FlatMapData(ds) ==
    IF ds = <<>> THEN <<>>
    ELSE into_data_opt(Head(ds)) \o FlatMapData(Tail(ds))

RootIntoData(root) == FlatMapData(root.data)

\* -------------------------------------------------------------- the client

\* Response::text: the body decoded as text, malformed sequences replaced.
Text(bytes) ==
    [i \in 1..Len(bytes) |->
        IF bytes[i].t = "bytes" THEN Replacement ELSE bytes[i]]

\* The category of the serde_json error for a text that does not parse.
ParseError(text) ==
    IF text = <<>> THEN "eof"
    ELSE IF Len(text) = 1 /\ IsJsonValue(text[1]) THEN "data"
    ELSE "syntax"

ParseFail(text) == [ok |-> FALSE, err |-> ParseError(text)]

\* serde_json::from_str::<node::Root>: the envelope, and every entry of data
\* as a DataOption.
FromStrRoot(text) ==
    LET n == Len(text)
    IN  IF /\ n >= 2
           /\ text[1] = OpenData
           /\ text[n] = CloseData
           /\ \A i \in 2..(n - 1) : IsJsonValue(text[i])
        THEN [ok |-> TRUE,
              v |-> [data |-> [i \in 1..(n - 2) |-> DataOption(text[i + 1])]]]
        ELSE ParseFail(text)

\* A parse of Metadata that takes a node of any structure_family.
FromStrMetadataAnyFamily(text) ==
    IF Len(text) = 1 /\ text[1].t = "node"
    THEN [ok |-> TRUE, v |-> [data |-> text[1]]]
    ELSE ParseFail(text)

\* serde_json::from_str::<node::Metadata>: data is one Data.
FromStrMetadata(text) ==
    IF Len(text) = 1 /\ IsData(text[1])
    THEN [ok |-> TRUE, v |-> [data |-> text[1]]]
    ELSE ParseFail(text)

\* serde_json::from_str::<table::Table>
FromStrTable(text) ==
    IF Len(text) = 1 /\ text[1].t = "table"
    THEN [ok |-> TRUE, v |-> text[1].columns]
    ELSE ParseFail(text)

\* serde_json::from_str::<app::AppMetadata>
FromStrAppMetadata(text) ==
    IF Len(text) = 1 /\ text[1].t = "app"
    THEN [ok |-> TRUE, v |-> [api_version |-> text[1].api_version]]
    ELSE ParseFail(text)

\* serde_json::from_str::<T>, for the four response types of the client.
FromStr(T, text) ==
    CASE T = "Root" -> FromStrRoot(text)
      [] T = "Metadata" -> FromStrMetadata(text)
      [] T = "Table" -> FromStrTable(text)
      [] T = "AppMetadata" -> FromStrAppMetadata(text)

\* Endpoints that Url::join rejects (a scheme-relative reference with an
\* unterminated IPv6 host).
BadEndpoint == <<"//[">>

JoinFails(endpoint) == endpoint = BadEndpoint

\* What the remote side does with a request that was sent.
ConnectError == [tag |-> "ConnectError"]

HttpResponse(status, body, readable) ==
    [tag |-> "Response", status |-> status, body |-> body, readable |-> readable]

\* A match whose first range takes 500 as well.
ClassifyInclusiveUpper(T, status, body) ==
    IF status >= 400 /\ status <= 500 THEN TiledRequest(status, body)
    ELSE IF status >= 500 /\ status < 600 THEN TiledInternal(status, body)
    ELSE LET p == FromStr(T, body)
         IN  IF p.ok THEN Ok(p.v) ELSE InvalidResponse(p.err, body)

\* A match that reports a parse failure without the body.
ClassifyWithoutBody(T, status, body) ==
    IF status >= 400 /\ status < 500 THEN TiledRequest(status, body)
    ELSE IF status >= 500 /\ status < 600 THEN TiledInternal(status, body)
    ELSE LET p == FromStr(T, body)
         IN  IF p.ok THEN Ok(p.v) ELSE InvalidResponse(p.err, <<>>)

\* The match on the status code.
Classify(T, status, body) ==
    IF status >= 400 /\ status < 500 THEN TiledRequest(status, body)
    ELSE IF status >= 500 /\ status < 600 THEN TiledInternal(status, body)
    ELSE LET p == FromStr(T, body)
         IN  IF p.ok THEN Ok(p.v) ELSE InvalidResponse(p.err, body)

\* A request that classifies whatever was read of a body whose read failed.
RequestOutcomeIgnoringBodyError(T, wire) ==
    IF wire.tag = "ConnectError" THEN ServerError("send")
    ELSE Classify(T, wire.status, Text(wire.body))

\* TiledClient::request after the URL was built: send, read the status, read
\* the body as text, classify.
RequestOutcome(T, wire) ==
    IF wire.tag = "ConnectError" THEN ServerError("send")
    ELSE IF ~wire.readable THEN ServerError("body")
    ELSE Classify(T, wire.status, Text(wire.body))

\* AuthHeader::as_header_map: the credential as the Authorization header.
as_header_map(a) == {<<"authorization", a>>}

\* HeaderMap::insert: one value per name.
HeaderInsert(h, name, value) ==
    {p \in h : p[1] # name} \cup {<<name, value>>}

\* Option::unwrap_or_default on Option<HeaderMap>.
UnwrapOrDefault(headers) == IF headers = None THEN {} ELSE headers.v

\* The arguments that each fixed operation hands to request.
app_metadata ==
    [method |-> "app_metadata", arg |-> <<>>,
     endpoint |-> <<"/api/v1/">>, headers |-> None, query |-> None,
     T |-> "AppMetadata"]

search(path, headers, query) ==
    [method |-> "search", arg |-> path,
     endpoint |-> <<"api/v1/search/">> \o path, headers |-> headers,
     query |-> Some(query), T |-> "Root"]

metadata(id, headers) ==
    [method |-> "metadata", arg |-> id,
     endpoint |-> <<"api/v1/metadata/">> \o id, headers |-> headers,
     query |-> None, T |-> "Metadata"]

table_full(path, columns, headers) ==
    [method |-> "table_full", arg |-> path,
     endpoint |-> <<"/api/v1/table/full/">> \o path,
     headers |-> Some(HeaderInsert(UnwrapOrDefault(headers),
                                   "accept", "application/json")),
     query |-> IF columns = None THEN None
               ELSE Some([i \in 1..Len(columns.v) |-> <<"column", columns.v[i]>>]),
     T |-> "Table"]

\* TiledClient::request: the URL is built first; a request that is sent is
\* answered by `wire`.
request(req, wire) ==
    IF JoinFails(req.endpoint) THEN InvalidPath("url")
    ELSE RequestOutcome(req.T, wire)

\* The request as the remote service sees it, with what became of it.
SentRequest(req, wire) ==
    [method |-> req.method, arg |-> req.arg, endpoint |-> req.endpoint,
     headers |-> UnwrapOrDefault(req.headers), query |-> req.query,
     T |-> req.T, wire |-> wire, outcome |-> RequestOutcome(req.T, wire)]

\* The calls that reached the network, in order.
Issue(log, req, wire) ==
    IF JoinFails(req.endpoint) THEN log ELSE Append(log, SentRequest(req, wire))

\* ------------------------------------------------------------ text helpers

RECURSIVE JoinStr(_, _)
\* [&str]::join(sep).
JoinStr(parts, sep) ==
    IF parts = <<>> THEN <<>>
    ELSE IF Len(parts) = 1 THEN parts[1]
    ELSE parts[1] \o <<sep>> \o JoinStr(Tail(parts), sep)

DigitChars == <<"0", "1", "2", "3", "4", "5", "6", "7", "8", "9">>

RECURSIVE Digits(_)
Digits(n) ==
    IF n < 10 THEN <<DigitChars[n + 1]>>
    ELSE Digits(n \div 10) \o <<DigitChars[(n % 10) + 1]>>

\* i64::to_string.
i64_to_string(n) == IF n < 0 THEN <<"-">> \o Digits(0 - n) ELSE Digits(n)

\* --------------------------------------------------------------- the inputs

\* The credential that the serving layer forwards, if any.
Credentials == {None, Some("auth_value")}

RunId == <<"r", "1">>

Assets == <<NodeAsset("file:///a", Some(42)), NodeAsset("file:///b", None)>>

\* The entries that a collection of the remote service is made of: a node of
\* each known family, a node of a family the schema does not know, and a
\* value that is no node.
ArrayNode ==
    NodeChunk(<<"d", "1">>, "array", <<RunId, <<"s", "1">>>>, Some(<<[assets |-> Assets]>>))

TableNode == NodeChunk(<<"t", "1">>, "table", <<RunId, <<"s", "1">>>>, None)

ContainerNode == NodeChunk(<<"s", "1">>, "container", <<RunId>>, None)

SparseNode == NodeChunk(<<"x", "1">>, "sparse", <<RunId, <<"s", "1">>>>, None)

JunkEntry == JsonChunk("{id:5}")

EntrySet == {ArrayNode, TableNode, ContainerNode, SparseNode, JunkEntry}

SeqsUpTo(S, k) == UNION {[1..n -> S] : n \in 0..k}

\* Bodies that parse as a collection envelope, of at most k entries.
Collections(k) == {<<OpenData>> \o es \o <<CloseData>> : es \in SeqsUpTo(EntrySet, k)}

\* Bodies of an error page: text, possibly not in the declared charset.
ErrorBodies ==
    {<<PlainText("Tiled is broken inside")>>,
     <<PlainText("caf"), InvalidBytes>>}

\* Bodies that are no collection.
OtherBodies ==
    {<<>>, <<JsonChunk("{}")>>, <<OpenData, ArrayNode>>,
     <<OpenData, InvalidBytes, CloseData>>}

\* What may come back for a search when the remote side has k entries left.
SearchResponses(k) ==
    {HttpResponse(200, b, TRUE) : b \in Collections(k) \cup OtherBodies}
    \cup {HttpResponse(404, b, TRUE) : b \in ErrorBodies}
    \cup {HttpResponse(503, <<PlainText("Tiled is broken inside")>>, TRUE),
          HttpResponse(200, <<OpenData, CloseData>>, FALSE),
          ConnectError}

\* The entries of a body.
EntryCount(wire) ==
    IF wire.tag = "Response"
    THEN Cardinality({i \in 1..Len(wire.body) : wire.body[i] \in EntrySet})
    ELSE 0

RECURSIVE EntriesUsed(_)
EntriesUsed(log) ==
    IF log = <<>> THEN 0
    ELSE EntryCount(Head(log).wire) + EntriesUsed(Tail(log))

\* ------------------------------------------------------------------- URLs

\* The percent-encoding of one character of a path segment.
EncodeChar(c) ==
    CASE c = " " -> <<"%", "2", "0">>
      [] c = "/" -> <<"%", "2", "F">>
      [] c = "%" -> <<"%", "2", "5">>
      [] OTHER -> <<c>>

RECURSIVE EncodeSegment(_)
EncodeSegment(seg) ==
    IF seg = <<>> THEN <<>>
    ELSE EncodeChar(Head(seg)) \o EncodeSegment(Tail(seg))

\* PathSegmentsMut::push: the segment is percent-encoded and appended; a
\* segment "." or ".." is ignored.
PushSegment(url, seg) ==
    IF seg \in {<<".">>, <<".", ".">>} THEN url
    ELSE [url EXCEPT !.path = Append(@, EncodeSegment(seg))]

RECURSIVE SerializePath(_)
SerializePath(path) ==
    IF path = <<>> THEN <<>>
    ELSE <<"/">> \o Head(path) \o SerializePath(Tail(path))

\* Url::to_string.
UrlToString(url) ==
    <<url.origin>> \o (IF url.path = <<>> THEN <<"/">> ELSE SerializePath(url.path))

\* The public address that serve puts in the schema: a URL that can be a
\* base, with or without a path of its own.
RootAddresses ==
    {[origin |-> "http://glazed.example", path |-> <<>>],
     [origin |-> "http://glazed.example", path |-> <<<<"g">>>>]}

\* Keys of nodes of the remote tree: non-empty path segments other than "."
\* and "..", which no URL of the remote service can address.
Names == {<<"a">>, <<"b", " ">>}

\* Option<i64> ids of assets.
AssetIds == {None, Some(0 - 7), Some(0), Some(42), Some(1230)}

\* ---------------------------------------------------------- the binary fetch

\* reqwest::Error as a value of its own: what reqwest::Result carries, which
\* is no variant of ClientError.
ReqwestError(cause) == [tag |-> "Err", kind |-> "reqwest::Error", cause |-> cause]

\* The address of the remote service joined with "/api/v1/asset/bytes".
AssetBytesUrl ==
    [origin |-> "http://tiled.example",
     path |-> <<<<"api">>, <<"v1">>, <<"asset">>, <<"bytes">>>>]

\* u32::to_string.
u32_to_string(id) == Digits(id)

\* TiledClient::download: the request that send() puts on the wire.
download(run, stream, det, id, headers) ==
    LET u1 == PushSegment(AssetBytesUrl, run)
        u2 == PushSegment(u1, stream)
        u3 == PushSegment(u2, det)
    IN  [method |-> "GET", url |-> u3, headers |-> UnwrapOrDefault(headers),
         query |-> <<<<"id", u32_to_string(id)>>>>]

\* A fetch that turns the statuses of failure into errors of the client, as
\* request does.
DownloadOutcomeByStatus(wire) ==
    IF wire.tag = "ConnectError" THEN ReqwestError("send")
    ELSE IF wire.status >= 400 /\ wire.status < 500
         THEN TiledRequest(wire.status, Text(wire.body))
    ELSE IF wire.status >= 500 /\ wire.status < 600
         THEN TiledInternal(wire.status, Text(wire.body))
    ELSE Ok(wire)

\* TiledClient::download: what send().await yields, handed back as it is.
DownloadOutcome(wire) ==
    IF wire.tag = "ConnectError" THEN ReqwestError("send") ELSE Ok(wire)

\* The binary fetch as the remote service sees it.
SentDownload(req, wire) ==
    [method |-> req.method, url |-> req.url, headers |-> req.headers,
     query |-> req.query, wire |-> wire]

\* u32 ids of the binary fetch.
U32Ids == {0, 42, 2147483647}

\* ------------------------------------------------------- the files of a dataset

\* The assets in a list that runs through the sources from the last to the
\* first.
RECURSIVE FlatMapAssetsLastFirst(_)
FlatMapAssetsLastFirst(srcs) ==
    IF srcs = <<>> THEN <<>>
    ELSE FlatMapAssetsLastFirst(Tail(srcs)) \o Head(srcs).assets

\* iter().flat_map(|source| source.assets.iter())
RECURSIVE FlatMapAssets(_)
FlatMapAssets(srcs) ==
    IF srcs = <<>> THEN <<>>
    ELSE Head(srcs).assets \o FlatMapAssets(Tail(srcs))

\* ArrayData::files: the body of the resolver.
files(self) ==
    LET srcs == IF self.attrs.data_sources = None THEN <<>>
                ELSE self.attrs.data_sources.v
        assets == FlatMapAssets(srcs)
    IN  [i \in 1..Len(assets) |-> [data |-> self, asset |-> assets[i]]]

\* node::DataSource values, by their assets.
DataSources ==
    {[assets |-> a] : a \in SeqsUpTo({Assets[1], Assets[2]}, MaxAssets)}

\* The data_sources field of an attribute block: absent, or a list.
DataSourcesOptions ==
    {None} \cup {Some(l) : l \in SeqsUpTo(DataSources, MaxSources)}

\* ---------------------------------------------------------------- the state

VARIABLES
    auth,      \* Option<AuthHeader> of the request context
    op,        \* the resolver that runs, with its receiver and arguments
    pc,        \* where the resolver stands
    calls,     \* the requests that reached the remote service, in order
    streams,   \* Run::data: what is left of the iteration over run_data.data()
    sources,   \* Run::data: the sources vector
    fetches,   \* the binary fetches that reached the remote service, in order
    result     \* what the resolver returned

vars == <<auth, op, pc, calls, streams, sources, fetches, result>>

\* auth.as_ref().map(AuthHeader::as_header_map)
headers == IF auth = None THEN None ELSE Some(as_header_map(auth.v))

IncludeDataSources == <<<<"include_data_sources", <<"true">>>>>>

\* The receivers and arguments of the resolvers.
SessionNames == {<<"c", "m", "1">>}

Runs == {[data |-> NodeChunk(RunId, "container", <<>>, None)]}

\* TableData values: an id and the ancestors of the attribute block.
TableDatas ==
    {[id |-> n, attrs |-> [ancestors |-> a]] :
        n \in Names, a \in SeqsUpTo(Names, MaxAncestors)}

\* The columns argument of TableData::data.
ColumnArgs == {None, Some(<<>>), Some(<<<<"x">>>>), Some(<<<<"x">>, <<"y">>>>)}

\* ArrayData values, by the fields that Asset::download reads.
ArrayDatas ==
    {[run |-> [data |-> [id |-> r]], stream |-> s, id |-> d] :
        r \in Names, s \in Names, d \in Names}

\* Asset values of model.rs: a node::Asset and the ArrayData that owns it.
AssetRefs ==
    {[asset |-> NodeAsset("file:///a", i), data |-> d] :
        i \in AssetIds, d \in ArrayDatas}

\* ArrayData values with their attribute block, as ArrayData::files reads
\* them.
ArrayDatasWithAttrs ==
    {[run |-> [data |-> [id |-> RunId]], stream |-> <<"s", "1">>, id |-> <<"d", "1">>,
      attrs |-> [data_sources |-> ds]] : ds \in DataSourcesOptions}

ResponseTypes == {"Root", "Metadata", "Table", "AppMetadata"}

Ops ==
    {[name |-> "app_metadata"]}
    \cup {[name |-> "runs", self |-> [session |-> n]] : n \in SessionNames}
    \cup {[name |-> "run_data", self |-> r] : r \in Runs}
    \cup {[name |-> "table_data", self |-> t, columns |-> c] :
              t \in TableDatas, c \in ColumnArgs}
    \cup {[name |-> "download", self |-> a, root_address |-> u] :
              a \in AssetRefs, u \in RootAddresses}
    \cup {[name |-> "files", self |-> d] : d \in ArrayDatasWithAttrs}
    \cup {[name |-> "metadata", id |-> n] : n \in Names}
    \cup {[name |-> "client_download", run |-> r, stream |-> st, det |-> d, id |-> i] :
              r \in Names, st \in Names, d \in Names, i \in U32Ids}
    \cup {[name |-> "request", endpoint |-> e, T |-> T] :
              e \in {<<"/demo/api">>, BadEndpoint}, T \in ResponseTypes}

Init ==
    /\ auth \in Credentials
    /\ op \in Ops
    /\ pc = "start"
    /\ calls = <<>>
    /\ streams = <<>>
    /\ sources = <<>>
    /\ fetches = <<>>
    /\ result = None

\* TiledQuery::app_metadata
AppMetadata ==
    /\ pc = "start"
    /\ op.name = "app_metadata"
    /\ \E wire \in {HttpResponse(200, <<AppChunk>>, TRUE),
                    HttpResponse(200, <<JsonChunk("{}")>>, TRUE),
                    HttpResponse(503, <<PlainText("Tiled is broken inside")>>, TRUE),
                    ConnectError} :
          /\ calls' = Issue(calls, app_metadata, wire)
          /\ result' = request(app_metadata, wire)
    /\ pc' = "done"
    /\ UNCHANGED <<auth, op, fetches, streams, sources>>

\* The filter of InstrumentSession::runs.
SessionQuery(name) ==
    <<<<"filter[eq][condition][key]", <<"start.instrument_session">>>>,
      <<"filter[eq][condition][value]", <<"\"">> \o name \o <<"\"">>>>,
      <<"include_data_sources", <<"true">>>>>>

RunOf(d) == [data |-> d]

\* InstrumentSession::runs
InstrumentSessionRuns ==
    /\ pc = "start"
    /\ op.name = "runs"
    /\ \E wire \in SearchResponses(MaxEntries) :
          LET req == search(<<>>, headers, SessionQuery(op.self.session))
              root == request(req, wire)
          IN  /\ calls' = Issue(calls, req, wire)
              /\ result' = IF root.tag = "Err" THEN root
                           ELSE LET ds == RootIntoData(root.v)
                                IN  Ok([i \in 1..Len(ds) |-> RunOf(ds[i])])
    /\ pc' = "done"
    /\ UNCHANGED <<auth, op, fetches, streams, sources>>

\* The attribute block of a node (NodeAttributes::*(attrs)).
AttrsOf(d) == [ancestors |-> d.ancestors, data_sources |-> d.data_sources]

\* The match on *dataset.attributes in Run::data.
RunDataOf(run, stream, dataset) ==
    CASE dataset.family = "array" ->
            <<[variant |-> "Array", run |-> run, stream |-> stream.id,
               id |-> dataset.id, attrs |-> AttrsOf(dataset)]>>
      [] dataset.family = "table" ->
            <<[variant |-> "Internal", id |-> dataset.id, attrs |-> AttrsOf(dataset)]>>
      [] dataset.family = "container" -> <<>>

RECURSIVE PushDatasetsReversed(_, _, _)
\* An inner loop that pushes the datasets of a stream last to first.
PushDatasetsReversed(run, stream, datasets) ==
    IF datasets = <<>> THEN <<>>
    ELSE PushDatasetsReversed(run, stream, Tail(datasets))
         \o RunDataOf(run, stream, Head(datasets))

RECURSIVE PushDatasets(_, _, _)
\* The inner loop of Run::data over stream_data.into_data().
PushDatasets(run, stream, datasets) ==
    IF datasets = <<>> THEN <<>>
    ELSE RunDataOf(run, stream, Head(datasets))
         \o PushDatasets(run, stream, Tail(datasets))

\* Run::data, up to the loop: the search for the run.
RunDataSearchRun ==
    /\ pc = "start"
    /\ op.name = "run_data"
    /\ \E wire \in SearchResponses(MaxEntries) :
          LET req == search(op.self.data.id, headers, IncludeDataSources)
              run_data == request(req, wire)
          IN  /\ calls' = Issue(calls, req, wire)
              /\ IF run_data.tag = "Err"
                 THEN /\ result' = run_data
                      /\ pc' = "done"
                      /\ UNCHANGED <<streams, sources>>
                 ELSE /\ streams' = RootIntoData(run_data.v)
                      /\ sources' = <<>>
                      /\ IF streams' = <<>>
                         THEN result' = Ok(<<>>) /\ pc' = "done"
                         ELSE result' = result /\ pc' = "streams"
    /\ UNCHANGED <<auth, op, fetches>>

\* A turn of the loop that skips a stream whose search failed.
AfterStreamSearchSkippingErrors(self, stream, stream_data, srcs, rest) ==
    LET pushed == IF stream_data.tag = "Err" THEN srcs
                  ELSE srcs \o PushDatasets(self, stream, RootIntoData(stream_data.v))
    IN  IF Tail(rest) = <<>>
        THEN [pc |-> "done", result |-> Some(Ok(pushed)),
              streams |-> Tail(rest), sources |-> pushed]
        ELSE [pc |-> "streams", result |-> None,
              streams |-> Tail(rest), sources |-> pushed]

\* A turn of the loop that searches the same stream again when its search
\* failed.
AfterStreamSearchRetrying(self, stream, stream_data, srcs, rest) ==
    IF stream_data.tag = "Err"
    THEN [pc |-> "streams", result |-> None,
          streams |-> rest, sources |-> srcs]
    ELSE LET pushed == srcs \o PushDatasets(self, stream, RootIntoData(stream_data.v))
         IN  IF Tail(rest) = <<>>
             THEN [pc |-> "done", result |-> Some(Ok(pushed)),
                   streams |-> Tail(rest), sources |-> pushed]
             ELSE [pc |-> "streams", result |-> None,
                   streams |-> Tail(rest), sources |-> pushed]

\* Run::data, one turn of the loop once the search for the stream has
\* answered: an error returns at once, a collection is classified into
\* sources, and the function returns after the last stream.
AfterStreamSearch(self, stream, stream_data, srcs, rest) ==
    IF stream_data.tag = "Err"
    THEN [pc |-> "done", result |-> Some(stream_data),
          streams |-> rest, sources |-> srcs]
    ELSE LET pushed == srcs \o PushDatasets(self, stream, RootIntoData(stream_data.v))
         IN  IF Tail(rest) = <<>>
             THEN [pc |-> "done", result |-> Some(Ok(pushed)),
                   streams |-> Tail(rest), sources |-> pushed]
             ELSE [pc |-> "streams", result |-> None,
                   streams |-> Tail(rest), sources |-> pushed]

\* Run::data, one turn of the loop over the streams: the search for the
\* stream, then the rest of the turn.
RunDataSearchStream ==
    /\ pc = "streams"
    /\ op.name = "run_data"
    /\ streams # <<>>
    /\ \E wire \in SearchResponses(MaxEntries - EntriesUsed(calls)) :
          LET stream == Head(streams)
              req == search(op.self.data.id \o <<"/">> \o stream.id,
                            headers, IncludeDataSources)
              after == AfterStreamSearch(op.self, stream, request(req, wire),
                                         sources, streams)
          IN  /\ calls' = Issue(calls, req, wire)
              /\ pc' = after.pc
              /\ result' = IF after.result = None THEN result ELSE after.result.v
              /\ streams' = after.streams
              /\ sources' = after.sources
    /\ UNCHANGED <<auth, op, fetches>>

\* What may come back for a table fetch.
TableResponses ==
    {HttpResponse(200, <<TableChunk(c)>>, TRUE) : c \in {<<>>, <<<<"x">>>>}}
    \cup {HttpResponse(200, <<JsonChunk("{}")>>, TRUE),
          HttpResponse(404, <<PlainText("caf"), InvalidBytes>>, TRUE),
          HttpResponse(503, <<PlainText("Tiled is broken inside")>>, TRUE),
          HttpResponse(200, <<TableChunk(<<>>)>>, FALSE),
          ConnectError}

\* A path with the id before the ancestors.
TablePathIdFirst(self) == JoinStr(<<self.id>> \o self.attrs.ancestors, "/")

\* TableData::inner_data: the path of the table.
TablePath(self) == JoinStr(self.attrs.ancestors \o <<self.id>>, "/")

\* TableData::data
TableDataData ==
    /\ pc = "start"
    /\ op.name = "table_data"
    /\ \E wire \in TableResponses :
          LET req == table_full(TablePath(op.self), op.columns, headers)
          IN  /\ calls' = Issue(calls, req, wire)
              /\ result' = Some(request(req, wire))
    /\ pc' = "done"
    /\ UNCHANGED <<auth, op, fetches, streams, sources>>

\* A download URL with the dataset before the stream.
asset_download_swapped(self, root_address) ==
    IF self.asset.id = None THEN None
    ELSE LET id == self.asset.id.v
             u1 == PushSegment(root_address, <<"asset">>)
             u2 == PushSegment(u1, self.data.run.data.id)
             u3 == PushSegment(u2, self.data.id)
             u4 == PushSegment(u3, self.data.stream)
             u5 == PushSegment(u4, i64_to_string(id))
         IN  Some(UrlToString(u5))

\* Asset::download: the body of the resolver.
asset_download(self, root_address) ==
    IF self.asset.id = None THEN None
    ELSE LET id == self.asset.id.v
             u1 == PushSegment(root_address, <<"asset">>)
             u2 == PushSegment(u1, self.data.run.data.id)
             u3 == PushSegment(u2, self.data.stream)
             u4 == PushSegment(u3, self.data.id)
             u5 == PushSegment(u4, i64_to_string(id))
         IN  Some(UrlToString(u5))

\* Asset::download
AssetDownload ==
    /\ pc = "start"
    /\ op.name = "download"
    /\ result' = asset_download(op.self, op.root_address)
    /\ pc' = "done"
    /\ UNCHANGED <<auth, op, fetches, calls, streams, sources>>

\* ArrayData::files
ArrayDataFiles ==
    /\ pc = "start"
    /\ op.name = "files"
    /\ result' = files(op.self)
    /\ pc' = "done"
    /\ UNCHANGED <<auth, op, fetches, calls, streams, sources>>

\* What may come back for a single node.
MetadataResponses ==
    {HttpResponse(200, <<e>>, TRUE) : e \in EntrySet}
    \cup {HttpResponse(200, <<InvalidBytes>>, TRUE),
          HttpResponse(404, <<PlainText("caf"), InvalidBytes>>, TRUE),
          HttpResponse(200, <<ArrayNode>>, FALSE),
          ConnectError}

\* TiledClient::metadata
ClientMetadata ==
    /\ pc = "start"
    /\ op.name = "metadata"
    /\ \E wire \in MetadataResponses :
          LET req == metadata(op.id, headers)
              r == request(req, wire)
          IN  /\ calls' = Issue(calls, req, wire)
              /\ result' = IF r.tag = "Err" THEN r ELSE Ok(r.v.data)
    /\ pc' = "done"
    /\ UNCHANGED <<auth, op, fetches, streams, sources>>

\* Status codes on both sides of each boundary of the match.
Statuses == {200, 204, 399, 400, 404, 499, 500, 503, 599, 600}

RequestBodies ==
    {<<AppChunk>>, <<ArrayNode>>, <<OpenData, ArrayNode, CloseData>>,
     <<TableChunk(<<>>)>>, <<JsonChunk("{}")>>, <<>>,
     <<PlainText("caf"), InvalidBytes>>}

RequestResponses ==
    {HttpResponse(st, b, rd) : st \in Statuses, b \in RequestBodies, rd \in BOOLEAN}
    \cup {ConnectError}

\* TiledClient::request, for any endpoint and response type.
ClientRequest ==
    /\ pc = "start"
    /\ op.name = "request"
    /\ \E wire \in RequestResponses :
          LET req == [method |-> "request", arg |-> op.endpoint,
                      endpoint |-> op.endpoint, headers |-> headers,
                      query |-> None, T |-> op.T]
          IN  /\ calls' = Issue(calls, req, wire)
              /\ result' = request(req, wire)
    /\ pc' = "done"
    /\ UNCHANGED <<auth, op, fetches, streams, sources>>

\* What may come back for the bytes of an asset: any status, a body that
\* need not be text, a body whose transfer may break off.
DownloadResponses ==
    {HttpResponse(st, b, rd) :
        st \in Statuses,
        b \in {<<InvalidBytes>>, <<PlainText("Tiled is broken inside")>>},
        rd \in BOOLEAN}
    \cup {ConnectError}

\* TiledClient::download
ClientDownload ==
    /\ pc = "start"
    /\ op.name = "client_download"
    /\ \E wire \in DownloadResponses :
          LET req == download(op.run, op.stream, op.det, op.id, headers)
          IN  /\ fetches' = Append(fetches, SentDownload(req, wire))
              /\ result' = DownloadOutcome(wire)
    /\ pc' = "done"
    /\ UNCHANGED <<auth, op, calls, streams, sources>>

Next ==
    \/ AppMetadata
    \/ InstrumentSessionRuns
    \/ RunDataSearchRun
    \/ RunDataSearchStream
    \/ TableDataData
    \/ AssetDownload
    \/ ArrayDataFiles
    \/ ClientMetadata
    \/ ClientRequest
    \/ ClientDownload

Spec == Init /\ [][Next]_vars

\* ------------------------------------------------------- reading the state

Done == pc = "done"

\* The entries of a body that is a collection envelope.
IsCollection(body) ==
    /\ Len(body) >= 2
    /\ body[1] = OpenData
    /\ body[Len(body)] = CloseData
    /\ \A i \in 2..(Len(body) - 1) : body[i] \in EntrySet

EntriesOf(body) == SubSeq(body, 2, Len(body) - 1)

\* A response that arrived whole, with a status outside 4xx and 5xx, holding
\* a collection.
AnswersCollection(call) ==
    /\ call.wire.tag = "Response"
    /\ call.wire.readable
    /\ call.wire.status \in {200, 204, 399, 600}
    /\ IsCollection(call.wire.body)

WellFormedEntries == {ArrayNode, TableNode, ContainerNode}

IsWellFormedEntry(e) == e \in WellFormedEntries

WellFormedOf(call) == SelectSeq(EntriesOf(call.wire.body), IsWellFormedEntry)

IsErr(r, kind) == r.tag = "Err" /\ r.kind = kind

\* ---------------------------------------------------------------------- C1

\* C1: a collection response that mixes well-formed nodes and malformed
\* entries resolves to exactly its well-formed nodes, in their order:
\* InstrumentSession.runs returns one Run per well-formed entry and no error
\* (an empty list for an empty collection), and the streams that Run.data
\* walks are the well-formed entries of the run's collection.
C1_WellFormedSubset ==
    /\ (Done /\ op.name = "runs" /\ Len(calls) = 1 /\ AnswersCollection(calls[1]))
          => LET wf == WellFormedOf(calls[1])
             IN  /\ result.tag = "Ok"
                 /\ Len(result.v) = Len(wf)
                 /\ \A i \in 1..Len(wf) : result.v[i].data = wf[i]
                 /\ (EntriesOf(calls[1].wire.body) = <<>> => result = Ok(<<>>))
    /\ (pc = "streams" /\ Len(calls) = 1) => streams = WellFormedOf(calls[1])

\* A collection with a malformed entry before, between and after two
\* well-formed ones resolved to the two runs.
C1_Witness ==
    /\ Done /\ op.name = "runs" /\ Len(calls) = 1
    /\ calls[1].wire = HttpResponse(200,
          <<OpenData, JunkEntry, ArrayNode, SparseNode, TableNode, CloseData>>, TRUE)
    /\ result = Ok(<<RunOf(ArrayNode), RunOf(TableNode)>>)

\* ---------------------------------------------------------------------- C2

Is4xx(st) == st \in 400..499

Is5xx(st) == st \in 500..599

\* C2: the status code alone decides the outcome of a response, before any
\* parsing: 4xx gives TiledRequest and 5xx gives TiledInternal with that
\* status, whatever the body; any other status gives the parsed value or
\* InvalidResponse.  A 4xx/5xx is never InvalidResponse or a success, and
\* another status is never TiledRequest or TiledInternal.
C2_StatusDecides ==
    \A i \in 1..Len(calls) :
        LET w == calls[i].wire
            o == calls[i].outcome
        IN  w.tag = "Response" =>
              /\ (Is4xx(w.status) /\ w.readable)
                    => (IsErr(o, "TiledRequest") /\ o.status = w.status)
              /\ (Is5xx(w.status) /\ w.readable)
                    => (IsErr(o, "TiledInternal") /\ o.status = w.status)
              /\ (Is4xx(w.status) \/ Is5xx(w.status))
                    => (o.tag = "Err" /\ o.kind # "InvalidResponse")
              /\ (~Is4xx(w.status) /\ ~Is5xx(w.status))
                    => /\ ~IsErr(o, "TiledRequest")
                       /\ ~IsErr(o, "TiledInternal")
                       /\ w.readable => (o.tag = "Ok" \/ IsErr(o, "InvalidResponse"))

\* A 404 whose body is the valid JSON of the expected type was classified
\* by its status.
C2_Witness ==
    /\ Done /\ op.name = "request" /\ op.T = "AppMetadata" /\ Len(calls) = 1
    /\ calls[1].wire = HttpResponse(404, <<AppChunk>>, TRUE)
    /\ result = TiledRequest(404, <<AppChunk>>)

\* ---------------------------------------------------------------------- C3

\* The outcomes that carry a body.
CarriesBody(o) ==
    o.tag = "Err" /\ o.kind \in {"InvalidResponse", "TiledRequest", "TiledInternal"}

\* Whether a chunk is valid text in the charset of the response.
IsValidText(c) == c # InvalidBytes

\* C3 as stated: the body carried by InvalidResponse, TiledRequest and
\* TiledInternal equals, byte for byte, the body that the remote service
\* sent.
C3_BodyByteForByte ==
    \A i \in 1..Len(calls) :
        CarriesBody(calls[i].outcome) => calls[i].outcome.body = calls[i].wire.body

\* C3, amended: a response with a status outside 4xx and 5xx whose body does
\* not parse gives InvalidResponse with the parse error, and the body carried
\* by InvalidResponse, TiledRequest and TiledInternal is the text of the
\* response: what the remote service sent where that is valid text, and
\* U+FFFD in place of every byte sequence that is not; so a body that is
\* valid text is carried unchanged.
C3_BodyAsText ==
    \A i \in 1..Len(calls) :
        LET w == calls[i].wire
            o == calls[i].outcome
        IN  /\ (/\ w.tag = "Response" /\ w.readable
                /\ ~Is4xx(w.status) /\ ~Is5xx(w.status)
                /\ ~FromStr(calls[i].T, Text(w.body)).ok)
                  => /\ IsErr(o, "InvalidResponse")
                     /\ o.err \in {"eof", "data", "syntax"}
            /\ CarriesBody(o) =>
                  /\ Len(o.body) = Len(w.body)
                  /\ \A k \in 1..Len(w.body) :
                        o.body[k] = IF IsValidText(w.body[k]) THEN w.body[k]
                                    ELSE Replacement
                  /\ (\A k \in 1..Len(w.body) : IsValidText(w.body[k]))
                        => o.body = w.body

\* A 200 whose body is not valid text was reported with the decoded text.
C3_Witness ==
    /\ Done /\ Len(calls) = 1
    /\ calls[1].wire = HttpResponse(200, <<PlainText("caf"), InvalidBytes>>, TRUE)
    /\ result = InvalidResponse("syntax", <<PlainText("caf"), Replacement>>)

\* ---------------------------------------------------------------------- C4

\* A node whose structure_family names no variant of NodeAttributes.
UnknownFamily(c) == c.t = "node" /\ c.family \notin {"container", "array", "table"}

\* A response that arrived whole, with a status outside 4xx and 5xx.
Parsed(call) ==
    /\ call.wire.tag = "Response"
    /\ call.wire.readable
    /\ ~Is4xx(call.wire.status)
    /\ ~Is5xx(call.wire.status)

\* C4 as stated: a node of an unknown structure_family makes the parse fail
\* with InvalidResponse, both as the node of a single-node response and as an
\* entry of a collection response.
C4_UnknownFamilyFails ==
    \A i \in 1..Len(calls) :
        (/\ Parsed(calls[i])
         /\ \/ calls[i].T = "Metadata" /\ Len(calls[i].wire.body) = 1
            \/ calls[i].T = "Root" /\ IsCollection(calls[i].wire.body)
         /\ \E k \in 1..Len(calls[i].wire.body) : UnknownFamily(calls[i].wire.body[k]))
            => IsErr(calls[i].outcome, "InvalidResponse")

\* C4, amended: as the node of a single-node (Metadata) response, a node of
\* an unknown structure_family makes the parse fail with InvalidResponse; as
\* an entry of a collection (Root) response it does not: the collection
\* parses, the entry becomes a DataOption::Error and is left out of data()
\* and into_data(), and it is never given a variant by default.
C4_UnknownFamily ==
    /\ \A i \in 1..Len(calls) :
          LET body == calls[i].wire.body
              o == calls[i].outcome
          IN  /\ (/\ Parsed(calls[i]) /\ calls[i].T = "Metadata"
                  /\ Len(body) = 1 /\ UnknownFamily(body[1]))
                    => IsErr(o, "InvalidResponse") /\ o.err = "data"
              /\ (Parsed(calls[i]) /\ calls[i].T = "Root" /\ IsCollection(body))
                    => /\ o.tag = "Ok"
                       /\ Len(o.v.data) = Len(body) - 2
                       /\ \A k \in 1..Len(o.v.data) :
                             UnknownFamily(body[k + 1])
                                => o.v.data[k] = [variant |-> "Error", value |-> body[k + 1]]
    /\ (Done /\ op.name = "runs" /\ result.tag = "Ok")
          => \A k \in 1..Len(result.v) : ~UnknownFamily(result.v[k].data)
    /\ \A k \in 1..Len(streams) : ~UnknownFamily(streams[k])
    /\ \A k \in 1..Len(sources) : sources[k].variant \in {"Array", "Internal"}

\* A single-node response with a node of family "sparse" was rejected.
C4_Witness ==
    /\ Done /\ op.name = "metadata" /\ Len(calls) = 1
    /\ calls[1].wire = HttpResponse(200, <<SparseNode>>, TRUE)
    /\ IsErr(result, "InvalidResponse")

\* ---------------------------------------------------------------------- C5

HasHeader(call, name) == \E h \in call.headers : h[1] = name

\* C5: a supplied credential is a header of every remote call made for the
\* request (application metadata, root search, run search, stream search,
\* table fetch), and without a credential no call carries that header.
C5_CredentialOnEveryCall ==
    \A i \in 1..Len(calls) :
        /\ auth # None => <<"authorization", auth.v>> \in calls[i].headers
        /\ auth = None => ~HasHeader(calls[i], "authorization")

\* ---------------------------------------------------------------------- C6

RECURSIVE SplitOn(_, _)
\* The pieces of a text between the occurrences of a separator.
SplitOn(text, sep) ==
    IF text = <<>> THEN << <<>> >>
    ELSE LET rest == SplitOn(Tail(text), sep)
         IN  IF Head(text) = sep THEN << <<>> >> \o rest
             ELSE << <<Head(text)>> \o rest[1] >> \o Tail(rest)

\* The path segments of a serialized URL: what follows the origin, split at
\* the slashes.
SegmentsOf(url) == Tail(SplitOn(Tail(url), "/"))

Unescape(hi, lo) ==
    CASE hi = "2" /\ lo = "0" -> " "
      [] hi = "2" /\ lo = "F" -> "/"
      [] hi = "2" /\ lo = "5" -> "%"

RECURSIVE PercentDecode(_)
PercentDecode(seg) ==
    IF seg = <<>> THEN <<>>
    ELSE IF Head(seg) = "%"
         THEN <<Unescape(seg[2], seg[3])>> \o PercentDecode(SubSeq(seg, 4, Len(seg)))
         ELSE <<Head(seg)>> \o PercentDecode(Tail(seg))

DigitValue(c) == CHOOSE d \in 0..9 : DigitChars[d + 1] = c

RECURSIVE ParseNat(_)
ParseNat(ds) ==
    IF Len(ds) = 1 THEN DigitValue(ds[1])
    ELSE ParseNat(SubSeq(ds, 1, Len(ds) - 1)) * 10 + DigitValue(ds[Len(ds)])

\* The integer that a decimal text denotes.
ParseInt(ds) == IF Head(ds) = "-" THEN 0 - ParseNat(Tail(ds)) ELSE ParseNat(ds)

\* C6: Asset.download returns no URL for an asset without id; for an asset
\* with id v it returns a URL on the public address whose last segments are
\* "asset" and then the run id, the stream id and the dataset id of the
\* owning ArrayData and v, in that order; and it makes no remote call.
C6_DownloadUrl ==
    (Done /\ op.name = "download") =>
        /\ calls = <<>>
        /\ op.self.asset.id = None => result = None
        /\ op.self.asset.id # None =>
              /\ result.tag = "Some"
              /\ LET segs == SegmentsOf(result.v)
                     n == Len(segs)
                     base == op.root_address
                 IN  /\ result.v[1] = base.origin
                     /\ n = Len(base.path) + 5
                     /\ SubSeq(segs, 1, n - 5) = base.path
                     /\ segs[n - 4] = <<"asset">>
                     /\ PercentDecode(segs[n - 3]) = op.self.data.run.data.id
                     /\ PercentDecode(segs[n - 2]) = op.self.data.stream
                     /\ PercentDecode(segs[n - 1]) = op.self.data.id
                     /\ ParseInt(segs[n]) = op.self.asset.id.v

\* A URL was returned for an asset with a negative id whose owner has three
\* different ids, on a public address with a path of its own.
C6_Witness ==
    /\ Done /\ op.name = "download"
    /\ op.self.asset.id = Some(0 - 7)
    /\ op.self.data.run.data.id = <<"a">>
    /\ op.self.data.stream = <<"b", " ">>
    /\ op.self.data.id = <<"a">>
    /\ op.root_address.path # <<>>
    /\ result = Some(<<"http://glazed.example", "/", "g", "/", "asset", "/", "a",
                       "/", "b", "%", "2", "0", "/", "a", "/", "-", "7">>)

\* ---------------------------------------------------------------------- C7

\* C7: the path that TableData.data passes to the table fetch is the
\* ancestors followed by the id, joined with "/", with no separator before
\* or after; and the columns asked for are forwarded unchanged, one "column"
\* parameter each, in order.
C7_TablePath ==
    (Done /\ op.name = "table_data") =>
        /\ Len(calls) = 1
        /\ calls[1].method = "table_full"
        /\ LET p == calls[1].arg
           IN  /\ SplitOn(p, "/") = op.self.attrs.ancestors \o <<op.self.id>>
               /\ Head(p) # "/"
               /\ p[Len(p)] # "/"
               /\ calls[1].endpoint = <<"/api/v1/table/full/">> \o p
        /\ op.columns = None => calls[1].query = None
        /\ op.columns # None =>
              /\ calls[1].query.tag = "Some"
              /\ Len(calls[1].query.v) = Len(op.columns.v)
              /\ \A k \in 1..Len(op.columns.v) :
                    calls[1].query.v[k] = <<"column", op.columns.v[k]>>

\* The table of id "a" under the ancestors "b " and "a" was fetched at
\* "b /a/a", with two columns.
C7_Witness ==
    /\ Done /\ op.name = "table_data"
    /\ op.self.attrs.ancestors = << <<"b", " ">>, <<"a">> >>
    /\ op.self.id = <<"a">>
    /\ op.columns = Some(<< <<"x">>, <<"y">> >>)
    /\ Len(calls) = 1
    /\ calls[1].arg = <<"b", " ", "/", "a", "/", "a">>

\* ---------------------------------------------------------------------- C8

IsLeaf(d) == d.family \in {"array", "table"}

\* What a sequential walk makes of one dataset of a stream.
ExpectedLeaf(run, stream, d) ==
    IF d.family = "array"
    THEN [variant |-> "Array", run |-> run.data.id, stream |-> stream.id, id |-> d.id]
    ELSE [variant |-> "Internal", id |-> d.id]

\* What a sequential walk makes of the answer to the search for a stream.
ExpectedOfStream(run, stream, call) ==
    LET leaves == SelectSeq(WellFormedOf(call), IsLeaf)
    IN  [k \in 1..Len(leaves) |-> ExpectedLeaf(run, stream, leaves[k])]

RECURSIVE ExpectedSources(_, _, _, _)
\* The walk over the streams from the i-th on: the answer to the search for
\* the i-th stream is the (i+1)-th call.
ExpectedSources(run, wf, log, i) ==
    IF i > Len(wf) THEN <<>>
    ELSE ExpectedOfStream(run, wf[i], log[i + 1])
         \o ExpectedSources(run, wf, log, i + 1)

\* The identifying fields of a RunData.
Identity(x) ==
    IF x.variant = "Array"
    THEN [variant |-> "Array", run |-> x.run.data.id, stream |-> x.stream, id |-> x.id]
    ELSE [variant |-> "Internal", id |-> x.id]

\* C8: when every search succeeds, Run.data returns the concatenation, over
\* the well-formed entries of the run's collection in their order, of the
\* datasets of each entry's own search (at run_id/stream_id) in their order:
\* an ArrayData with the dataset's id and the stream's id for an array, a
\* TableData with the dataset's id for a table, nothing for a container or a
\* malformed entry; the fetches are made one after the other, so the list is
\* that of a sequential walk.
C8_RunDataConcatenation ==
    (Done /\ op.name = "run_data" /\ result.tag = "Ok") =>
        LET wf == WellFormedOf(calls[1])
        IN  /\ AnswersCollection(calls[1])
            /\ Len(calls) = 1 + Len(wf)
            /\ \A i \in 1..Len(wf) :
                  /\ AnswersCollection(calls[i + 1])
                  /\ calls[i + 1].arg = op.self.data.id \o <<"/">> \o wf[i].id
            /\ [k \in 1..Len(result.v) |-> Identity(result.v[k])]
                  = ExpectedSources(op.self, wf, calls, 1)
            /\ \A k \in 1..Len(result.v) :
                  \E i \in 2..Len(calls) : \E e \in 1..Len(calls[i].wire.body) :
                      /\ calls[i].wire.body[e].t = "node"
                      /\ calls[i].wire.body[e].id = result.v[k].id
                      /\ result.v[k].attrs = AttrsOf(calls[i].wire.body[e])

\* Two streams were walked: the first (a table node) held an array, the
\* second (a container) held a table.
C8_Witness ==
    /\ Done /\ op.name = "run_data" /\ Len(calls) = 3
    /\ result.tag = "Ok"
    /\ EntriesOf(calls[1].wire.body) = <<TableNode, ContainerNode>>
    /\ EntriesOf(calls[2].wire.body) = <<ArrayNode>>
    /\ EntriesOf(calls[3].wire.body) = <<TableNode>>
    /\ Len(result.v) = 2
    /\ result.v[1].variant = "Array" /\ result.v[1].stream = TableNode.id
    /\ result.v[2].variant = "Internal"

\* ---------------------------------------------------------------------- C9

\* What the resolver handed to its caller: TableData.data wraps it in Some.
Returned == IF op.name = "table_data" THEN result.v ELSE result

\* C9: in InstrumentSession.runs, Run.data and TableData.data a remote call
\* that fails ends the operation with that very error (transport, 4xx, 5xx
\* or invalid response), whatever was resolved before it, and no call
\* follows it; an operation whose calls all succeed succeeds, and a
\* collection that arrives whole succeeds whatever malformed entries it
\* holds.
C9_ErrorsPropagate ==
    op.name \in {"runs", "run_data", "table_data"} =>
        /\ \A i \in 1..Len(calls) :
              /\ i < Len(calls) => calls[i].outcome.tag = "Ok"
              /\ AnswersCollection(calls[i]) => calls[i].outcome.tag = "Ok"
        /\ ~Done => \A i \in 1..Len(calls) : calls[i].outcome.tag = "Ok"
        /\ Done =>
              /\ Len(calls) >= 1
              /\ op.name = "table_data" => result.tag = "Some"
              /\ Returned.tag \in {"Ok", "Err"}
              /\ calls[Len(calls)].outcome.tag = "Err"
                    => Returned = calls[Len(calls)].outcome
              /\ calls[Len(calls)].outcome.tag = "Ok" => Returned.tag = "Ok"
              /\ Returned.tag = "Err" =>
                    Returned.kind \in {"ServerError", "TiledRequest",
                                       "TiledInternal", "InvalidResponse"}

\* The first stream of a run resolved to an array and the search for the
\* second failed with a 503: Run.data returned TiledInternal and no list.
C9_Witness ==
    /\ Done /\ op.name = "run_data" /\ Len(calls) = 3
    /\ EntriesOf(calls[2].wire.body) = <<ArrayNode>>
    /\ Len(sources) = 1
    /\ calls[3].wire.tag = "Response" /\ calls[3].wire.status = 503
    /\ IsErr(result, "TiledInternal")

\* --------------------------------------------------------------------- C10

\* C10: a request that gets no response, or whose response body cannot be
\* read, ends in ServerError wrapping the cause, never in TiledRequest,
\* TiledInternal or InvalidResponse; an endpoint from which no URL can be
\* built ends in InvalidPath, and nothing is sent.
C10_TransportAndPath ==
    /\ \A i \in 1..Len(calls) :
          LET w == calls[i].wire
              o == calls[i].outcome
          IN  /\ w.tag = "ConnectError" => o = ServerError("send")
              /\ (w.tag = "Response" /\ ~w.readable) => o = ServerError("body")
              /\ calls[i].endpoint # <<"//[">>
    /\ (Done /\ op.name = "request") =>
          /\ op.endpoint = <<"//[">> => (calls = <<>> /\ IsErr(result, "InvalidPath"))
          /\ op.endpoint # <<"//[">> => (Len(calls) = 1 /\ result = calls[1].outcome)
    /\ (Done /\ op.name \in {"request", "app_metadata"} /\ calls # <<>>
          /\ (calls[1].wire.tag = "ConnectError" \/ ~calls[1].wire.readable))
          => IsErr(result, "ServerError")

\* The body of a 404 could not be read: the request ended in ServerError.
C10_Witness ==
    /\ Done /\ op.name = "request" /\ Len(calls) = 1
    /\ calls[1].wire.tag = "Response"
    /\ calls[1].wire.status = 404
    /\ ~calls[1].wire.readable
    /\ result = ServerError("body")

\* --------------------------------------------------------------------- C11

\* The kinds of ClientError.
ClientErrorKinds ==
    {"InvalidPath", "ServerError", "InvalidResponse", "TiledInternal", "TiledRequest"}

\* One GET went out, to the asset-bytes endpoint followed by the run, the
\* stream and the dataset, with the id as the only query parameter and the
\* forwarded headers; a response came back as it arrived, whatever its status
\* and whether or not its body could be read.
OneRawFetch ==
    /\ calls = <<>>
    /\ Len(fetches) = 1
    /\ LET f == fetches[1]
           segs == f.url.path
       IN  /\ f.method = "GET"
           /\ f.url.origin = "http://tiled.example"
           /\ Len(segs) = 7
           /\ SubSeq(segs, 1, 4) = <<<<"api">>, <<"v1">>, <<"asset">>, <<"bytes">>>>
           /\ PercentDecode(segs[5]) = op.run
           /\ PercentDecode(segs[6]) = op.stream
           /\ PercentDecode(segs[7]) = op.det
           /\ Len(f.query) = 1
           /\ f.query[1][1] = "id"
           /\ ParseNat(f.query[1][2]) = op.id
           /\ auth = None => f.headers = {}
           /\ auth # None => <<"authorization", auth.v>> \in f.headers
           /\ f.wire.tag = "Response" => result = Ok(f.wire)
           /\ result.tag = "Err" <=> f.wire.tag = "ConnectError"

RECURSIVE AssetsBefore(_, _)
AssetsBefore(srcs, i) ==
    IF i <= 1 THEN 0
    ELSE AssetsBefore(srcs, i - 1) + Len(srcs[i - 1].assets)

\* C12: ArrayData.files returns one Asset per asset of the dataset, ordered by
\* data source and then by position within the data source's asset list, each
\* bound to the ArrayData it was asked of; it returns the empty list when
\* data_sources is missing or empty; and it makes no remote call.
C12_Files ==
    (Done /\ op.name = "files") =>
        LET ds == op.self.attrs.data_sources
            srcs == IF ds = None THEN <<>> ELSE ds.v
        IN  /\ calls = <<>>
            /\ fetches = <<>>
            /\ Len(result) = AssetsBefore(srcs, Len(srcs) + 1)
            /\ \A i \in 1..Len(srcs) :
                  \A j \in 1..Len(srcs[i].assets) :
                      result[AssetsBefore(srcs, i) + j] =
                          [asset |-> srcs[i].assets[j], data |-> op.self]
            /\ (ds = None \/ srcs = <<>>) => result = <<>>

\* The files of a dataset with two data sources, the first of one asset and
\* the second of two, were listed: three assets, the one of the first source
\* first.
C12_Witness ==
    /\ Done /\ op.name = "files"
    /\ op.self.attrs.data_sources =
          Some(<<[assets |-> <<Assets[2]>>], [assets |-> <<Assets[1], Assets[2]>>]>>)
    /\ result = <<[data |-> op.self, asset |-> Assets[2]],
                  [data |-> op.self, asset |-> Assets[1]],
                  [data |-> op.self, asset |-> Assets[2]]>>

\* --------------------------------------------------------------------- C13

\* Every call so far is a search and none is a binary fetch.
OnlySearches ==
    /\ fetches = <<>>
    /\ \A i \in 1..Len(calls) : calls[i].method = "search"

\* No call follows a failed one: a failed call is the last, and the operation
\* has returned its error.
StopsAtFirstFailure ==
    \A i \in 1..Len(calls) :
        calls[i].outcome.tag = "Err" =>
            /\ i = Len(calls)
            /\ Done
            /\ Returned = calls[i].outcome

\* The searches of Run.data so far: the run, then the well-formed entries of
\* its answer one after the other, each once.
SearchesInStreamOrder ==
    /\ pc = "start" <=> calls = <<>>
    /\ calls # <<>> =>
          /\ calls[1].arg = op.self.data.id
          /\ calls[1].outcome.tag = "Err" => Len(calls) = 1
          /\ calls[1].outcome.tag = "Ok" =>
                LET wf == WellFormedOf(calls[1])
                IN  /\ Len(calls) <= 1 + Len(wf)
                    /\ \A i \in 2..Len(calls) :
                          calls[i].arg = op.self.data.id \o <<"/">> \o wf[i - 1].id
                    /\ (Done /\ Returned.tag = "Ok") => Len(calls) = 1 + Len(wf)
                    /\ ~Done => Len(calls) < 1 + Len(wf)

\* C13: no remote call is retried and no derived fetch is made eagerly.
\* InstrumentSession.runs issues exactly one search, of the root; Run.data
\* issues one search for the run and then, in stream order, one search at
\* run_id/stream_id per well-formed stream entry, and no call after the first
\* failed one; neither issues a table fetch or a binary fetch; TableData.data
\* issues exactly one table fetch.
C13_NoRetryNoEagerFetch ==
    /\ op.name = "runs" =>
          /\ OnlySearches
          /\ Len(calls) = (IF Done THEN 1 ELSE 0)
          /\ Done => calls[1].arg = <<>>
    /\ op.name = "run_data" =>
          /\ OnlySearches
          /\ StopsAtFirstFailure
          /\ SearchesInStreamOrder
    /\ op.name = "table_data" =>
          /\ fetches = <<>>
          /\ Len(calls) = (IF Done THEN 1 ELSE 0)
          /\ Done => calls[1].method = "table_full"

\* Run.data found two well-formed entries and one malformed entry in the
\* run, the search of the first stream met a transport failure, and the
\* operation returned that error after two calls, the second stream never
\* searched.
C13_Witness ==
    /\ Done /\ op.name = "run_data"
    /\ Len(calls) = 2
    /\ calls[1].wire =
          HttpResponse(200, <<OpenData, ContainerNode, JunkEntry, TableNode, CloseData>>, TRUE)
    /\ calls[2].arg = <<"r", "1", "/", "s", "1">>
    /\ calls[2].wire = ConnectError
    /\ result = ServerError("send")

\* --------------------------------------------------------------------- C14

\* u32::MAX in decimal.
U32MaxText == <<"4", "2", "9", "4", "9", "6", "7", "2", "9", "5">>

\* Of two decimal texts of the same length, the first denotes no more than
\* the second.
RECURSIVE DigitsLeq(_, _)
DigitsLeq(a, b) ==
    IF a = <<>> THEN TRUE
    ELSE IF DigitValue(Head(a)) < DigitValue(Head(b)) THEN TRUE
    ELSE IF DigitValue(Head(a)) > DigitValue(Head(b)) THEN FALSE
    ELSE DigitsLeq(Tail(a), Tail(b))

\* The texts that denote a value of u32, the type of the id parameter of the
\* binary fetch: decimal digits without a sign, up to u32::MAX.
IsU32Text(t) ==
    /\ t # <<>>
    /\ \A i \in 1..Len(t) : \E d \in 1..10 : DigitChars[d] = t[i]
    /\ \/ Len(t) < Len(U32MaxText)
       \/ Len(t) = Len(U32MaxText) /\ DigitsLeq(t, U32MaxText)

\* C14: every URL that Asset.download returns ends in
\* asset/<run>/<stream>/<dataset>/<id>, the shape of the route
\* /asset/{run}/{stream}/{det}/{id}; its id segment denotes a value of the
\* u32 id parameter of the binary fetch; and the binary fetch for the four
\* segments asks the remote service for the run, stream, dataset and id of the
\* asset's owner.
C14_Addressable ==
    (Done /\ op.name = "download" /\ result.tag = "Some") =>
        LET segs == SegmentsOf(result.v)
            n == Len(segs)
        IN  /\ n >= 5
            /\ segs[n - 4] = <<"asset">>
            /\ IsU32Text(segs[n])
            /\ LET req == download(PercentDecode(segs[n - 3]),
                                   PercentDecode(segs[n - 2]),
                                   PercentDecode(segs[n - 1]),
                                   ParseNat(segs[n]), headers)
                   path == req.url.path
                   k == Len(path)
               IN  /\ PercentDecode(path[k - 2]) = op.self.data.run.data.id
                   /\ PercentDecode(path[k - 1]) = op.self.data.stream
                   /\ PercentDecode(path[k]) = op.self.data.id
                   /\ req.query = <<<<"id", i64_to_string(op.self.asset.id.v)>>>>

====
